---- MODULE Spec2Model ----
(***************************************************************************)
(* TDL2048-Demo: the 2x2 2048 board engine, the base-6 value table and the *)
(* TD(0) episode loop of src/2048.cpp.                                     *)
(*                                                                         *)
(* A board is <<row0, row1>> with each row <<cell0, cell1>> (the source's  *)
(* tile[i][j] is board[i+1][j+1]).  A float of the source is an integer    *)
(* count of 1/WeightScale units; the product alpha * d is rounded to the   *)
(* nearest unit.  The table weight[] is kept as the function from the      *)
(* indices of its nonzero entries to their values: an index of 0..1295     *)
(* that is not in its domain holds 0.                                      *)
(***************************************************************************)
EXTENDS Integers, Sequences, FiniteSets, TLC

VARIABLES
    b,        \* main: board b of the running episode (line 243)
    history,  \* main: std::vector<board> history (line 174)
    actions,  \* main: std::vector<int> actions (line 175)
    weight,   \* main: float weight[6*6*6*6] (line 157), its nonzero entries
    a,        \* main: board a[4] of the current step (line 248)
    r,        \* main: int r[4] of the current step (line 249)
    v,        \* main: float v[4] of the current step (line 250)
    x,        \* main: int x, the selected opcode (line 247)
    episode,  \* main: size_t i, the episode number (line 238)
    steps,    \* number of next() calls made so far in the run
    exact,    \* main: float exact of the backward replay (line 298)
    replay_r, \* main: int r of the backward replay (line 297)
    pc,       \* position in main's loops, or in a single call
    arg,      \* a single call: the board the method is called on
    op,       \* a single call: the opcode passed
    ret       \* a single call: the value returned

vars ==
    <<b, history, actions, weight, a, r, v, x, episode, steps, exact, replay_r,
      pc, arg, op, ret>>

---------------------------------------------------------------------------
(* Bounds of the model *)

\* Largest cell rank of the boards on which single calls are made.
MaxRank == 6

\* Number of next() calls explored in one run of main.
MaxSteps == 7

\* Units per 1.0 in the fixed-point reading of float.
WeightScale == 1000000

---------------------------------------------------------------------------
(* Program constants *)

ILLEGAL == -1

\* alpha = 0.01 is AlphaNum / AlphaDen
AlphaNum == 1
AlphaDen == 100

\* int isomorphic = 8, the number of variants train_isomorphic enumerates
isomorphic_n == 8

\* float weight[6 * 6 * 6 * 6]
Base == 6

\* -std::numeric_limits<float>::max(), below every value a table entry takes
NegFltMax == -2147483647

forward == TRUE

---------------------------------------------------------------------------
(* class board *)

EmptyBoard == <<<<0, 0>>, <<0, 0>>>>

\* operator int()
Encode(t) == t[1][1] * 4096 + t[1][2] * 256 + t[2][1] * 16 + t[2][2]

\* operator=(int v): (v >> s) & 15 on a non-negative v
NibbleMask == 15

BugDecodeSwapsMiddle(val) ==
    <<<<(val \div 4096) % (NibbleMask + 1), (val \div 16) % (NibbleMask + 1)>>,
      <<(val \div 256) % (NibbleMask + 1), val % (NibbleMask + 1)>>>>

Decode(val) ==
    <<<<(val \div 4096) % (NibbleMask + 1), (val \div 256) % (NibbleMask + 1)>>,
      <<(val \div 16) % (NibbleMask + 1), val % (NibbleMask + 1)>>>>

\* (1 << k) & -2u : 2^k with bit 0 cleared
ShiftMask(k) == (2 ^ k) - ((2 ^ k) % 2)

\* One iteration of the loop of left() over a row: the row after it and
\* what it adds to score.
BugLeftRowRewardOfOldRank(row) ==
    IF row[1] = 0
    THEN [row |-> <<row[2], 0>>, score |-> 0]
    ELSE IF row[1] = row[2]
    THEN [row |-> <<row[1] + 1, 0>>, score |-> ShiftMask(row[1])]
    ELSE [row |-> row, score |-> 0]

BugLeftRowMergeKeepsRank(row) ==
    IF row[1] = 0
    THEN [row |-> <<row[2], 0>>, score |-> 0]
    ELSE IF row[1] = row[2]
    THEN [row |-> <<row[1], 0>>, score |-> ShiftMask(row[1])]
    ELSE [row |-> row, score |-> 0]

\* Mutants of the row rule: the equality test made before the empty-cell
\* test; `row[0] = row[1]` written for `row[0] == row[1]`.
BugLeftRowNoMergeGuard(row) ==
    IF row[1] = row[2]
    THEN [row |-> <<row[1] + 1, 0>>, score |-> ShiftMask(row[1] + 1)]
    ELSE IF row[1] = 0
    THEN [row |-> <<row[2], 0>>, score |-> 0]
    ELSE [row |-> row, score |-> 0]

\* The merge without `row[1] = 0`.
BugLeftRowMergeKeepsSecond(row) ==
    IF row[1] = 0
    THEN [row |-> <<row[2], 0>>, score |-> 0]
    ELSE IF row[1] = row[2]
    THEN [row |-> <<row[1] + 1, row[2]>>, score |-> ShiftMask(row[1] + 1)]
    ELSE [row |-> row, score |-> 0]

BugLeftRowAssignInTest(row) ==
    IF row[1] = 0
    THEN [row |-> <<row[2], 0>>, score |-> 0]
    ELSE IF row[2] # 0
    THEN [row |-> <<row[2] + 1, 0>>, score |-> ShiftMask(row[2] + 1)]
    ELSE [row |-> <<0, 0>>, score |-> 0]

LeftRow(row) ==
    IF row[1] = 0
    THEN [row |-> <<row[2], 0>>, score |-> 0]
    ELSE IF row[1] = row[2]
    THEN [row |-> <<row[1] + 1, 0>>, score |-> ShiftMask(row[1] + 1)]
    ELSE [row |-> row, score |-> 0]

\* left(): the board after the call and the value returned
BugLeftReturnsScore(t) ==
    LET r0 == LeftRow(t[1])
        r1 == LeftRow(t[2])
    IN  [tile |-> <<r0.row, r1.row>>, ret |-> r0.score + r1.score]

left(t) ==
    LET now == Encode(t)
        r0 == LeftRow(t[1])
        r1 == LeftRow(t[2])
        new == <<r0.row, r1.row>>
        score == r0.score + r1.score
    IN  [tile |-> new, ret |-> IF Encode(new) # now THEN score ELSE ILLEGAL]

\* Mutant of transpose: the swap written as a copy.
BugTransposeCopies(t) == <<<<t[1][1], t[2][1]>>, <<t[2][1], t[2][2]>>>>

transpose(t) == <<<<t[1][1], t[2][1]>>, <<t[1][2], t[2][2]>>>>

mirror(t) == <<<<t[1][2], t[1][1]>>, <<t[2][2], t[2][1]>>>>

flip(t) == <<t[2], t[1]>>

\* The % of C++ on ints: the remainder has the sign of the dividend.
CRem(n, m) == IF n >= 0 THEN n % m ELSE -((-n) % m)

BugRotateSameBothWays(t, k) ==
    LET c == CRem(CRem(k, 4) + 4, 4)
    IN  CASE c = 1 -> mirror(transpose(t))
          [] c = 2 -> flip(mirror(t))
          [] c = 3 -> mirror(transpose(t))
          [] OTHER -> t

rotate(t, k) ==
    LET c == CRem(CRem(k, 4) + 4, 4)
    IN  CASE c = 1 -> mirror(transpose(t))
          [] c = 2 -> flip(mirror(t))
          [] c = 3 -> flip(transpose(t))
          [] OTHER -> t

\* right(), up(), down(): m is the board left by the inner call together with
\* its score (`int score = left();`), bound once to its value.
right(t) ==
    CHOOSE res \in {[tile |-> mirror(m.tile), ret |-> m.ret] :
                        m \in {left(mirror(t))}} : TRUE

up(t) ==
    CHOOSE res \in {[tile |-> rotate(m.tile, -1), ret |-> m.ret] :
                        m \in {right(rotate(t, 1))}} : TRUE

down(t) ==
    CHOOSE res \in {[tile |-> rotate(m.tile, -1), ret |-> m.ret] :
                        m \in {left(rotate(t, 1))}} : TRUE

move(t, opcode) ==
    CASE opcode = 0 -> up(t)
      [] opcode = 1 -> right(t)
      [] opcode = 2 -> down(t)
      [] opcode = 3 -> left(t)
      [] OTHER -> [tile |-> t, ret |-> ILLEGAL]

isomorphic(t, i) ==
    LET iso == CRem(CRem(i, 8) + 8, 8)
    IN  rotate(IF iso > 4 THEN mirror(t) ELSE t, iso)

\* next(): the boards the call can leave, one per empty cell and per rank
\* popped (std::rand() % 10 ? 1 : 2); the board itself when no cell is empty.
WithCell(t, pos, pop) ==
    [t EXCEPT ![(pos \div 2) + 1][(pos % 2) + 1] = pop]

Spaces(t) == {pos \in 0..3 : t[(pos \div 2) + 1][(pos % 2) + 1] = 0}

BugNextPopsOnlyOne(t) ==
    IF Spaces(t) = {} THEN {t}
    ELSE {WithCell(t, pos, 1) : pos \in Spaces(t)}

BugNextPopsRankThree(t) ==
    IF Spaces(t) = {} THEN {t}
    ELSE {WithCell(t, pos, pop) : pos \in Spaces(t), pop \in {1, 2, 3}}

next(t) ==
    IF Spaces(t) = {} THEN {t}
    ELSE {WithCell(t, pos, pop) : pos \in Spaces(t), pop \in {1, 2}}

---------------------------------------------------------------------------
(* Single calls of board::move on the boards with ranks 0..MaxRank *)

Ranks == 0..MaxRank

Boards == {<<<<c0, c1>>, <<c2, c3>>>> : c0 \in Ranks, c1 \in Ranks, c2 \in Ranks, c3 \in Ranks}

\* float weight[6 * 6 * 6 * 6] = { 0 }
TableRange == 0..(Base * Base * Base * Base - 1)

ZeroWeight == [k \in {} |-> 0]

MainIdle ==
    /\ b = EmptyBoard
    /\ history = <<>>
    /\ actions = <<>>
    /\ weight = ZeroWeight
    /\ a = <<EmptyBoard, EmptyBoard, EmptyBoard, EmptyBoard>>
    /\ r = <<ILLEGAL, 0, 0, 0>>
    /\ v = <<NegFltMax, 0, 0, 0>>
    /\ x = 0
    /\ episode = 1
    /\ steps = 0
    /\ exact = 0
    /\ replay_r = 0

ReplayVars == <<exact, replay_r>>

MainVars == <<b, history, actions, weight, a, r, v, x, episode, steps, ReplayVars>>

BoardInit ==
    /\ MainIdle
    /\ pc = "call"
    /\ arg \in Boards
    /\ op = 0
    /\ ret = [tile |-> arg, ret |-> 0]

CallMove(opcode) ==
    /\ pc = "call"
    /\ pc' = "moved"
    /\ op' = opcode
    /\ ret' = move(arg, opcode)
    /\ UNCHANGED <<arg, MainVars>>

\* One call of isomorphic(i), with i as train_isomorphic passes it.
CallIsomorphic(i) ==
    /\ pc = "call"
    /\ pc' = "isomorphed"
    /\ op' = i
    /\ ret' = [tile |-> isomorphic(arg, i), ret |-> 0]
    /\ UNCHANGED <<arg, MainVars>>

\* One call of next(): std::rand() picks the cell and the rank.
CallNext ==
    /\ pc = "call"
    /\ pc' = "nexted"
    /\ op' = 0
    /\ ret' \in {[tile |-> nb, ret |-> 0] : nb \in next(arg)}
    /\ UNCHANGED <<arg, MainVars>>

BoardNext ==
    \/ \E opcode \in 0..3 : CallMove(opcode)
    \/ \E i \in 0..(isomorphic_n - 1) : CallIsomorphic(i)
    \/ CallNext

BoardSpec == BoardInit /\ [][BoardNext]_vars

---------------------------------------------------------------------------
(* operator int() and operator=(int) on the packed values and the boards
   with one nibble per cell *)

Packed == 0..(16 * 16 * 16 * 16 - 1)

NibbleBoards ==
    {<<<<c0, c1>>, <<c2, c3>>>> :
        c0 \in 0..NibbleMask, c1 \in 0..NibbleMask,
        c2 \in 0..NibbleMask, c3 \in 0..NibbleMask}

\* Either a packed value is held in op, about to be assigned to the board
\* arg, or a board is held in arg, about to be converted to int.
CodecInit ==
    /\ MainIdle
    /\ \/ /\ pc = "value"
          /\ op \in Packed
          /\ arg = EmptyBoard
       \/ /\ pc = "board"
          /\ op = 0
          /\ arg \in NibbleBoards
    /\ ret = [tile |-> EmptyBoard, ret |-> 0]

\* board = v, with v the packed value at hand
CallAssign ==
    \/ /\ pc = "value"
       /\ pc' = "decoded"
       /\ arg' = Decode(op)
       /\ UNCHANGED <<op, ret, MainVars>>
    \/ /\ pc = "packed"
       /\ pc' = "unpacked"
       /\ ret' = [tile |-> Decode(ret.ret), ret |-> ret.ret]
       /\ UNCHANGED <<op, arg, MainVars>>

\* int(board)
CallInt ==
    /\ pc \in {"decoded", "board"}
    /\ pc' = IF pc = "decoded" THEN "encoded" ELSE "packed"
    /\ ret' = [tile |-> arg, ret |-> Encode(arg)]
    /\ UNCHANGED <<op, arg, MainVars>>

CodecNext == CallAssign \/ CallInt

CodecSpec == CodecInit /\ [][CodecNext]_vars

---------------------------------------------------------------------------
(* main: the value table *)

\* The index of V: the four ranks as base-6 digits, tile[0][0] first.
Index(t) ==
    t[1][1] * Base * Base * Base + t[1][2] * Base * Base + t[2][1] * Base + t[2][2]

\* weight[k] read in table w, for k in the table's range.
W(w, k) == IF k \in DOMAIN w THEN w[k] ELSE 0

\* weight[k] = val written in table w.
Store(w, k, val) ==
    IF val = 0
    THEN [j \in DOMAIN w \ {k} |-> w[j]]
    ELSE [j \in DOMAIN w \cup {k} |-> IF j = k THEN val ELSE w[j]]

\* V(b) read in table w; an index outside the array has no value here.
V(w, t) ==
    LET k == Index(t)
    IN  CASE k \in TableRange -> W(w, k)

\* V(b) += upd
AddV(w, t, upd) == Store(w, Index(t), V(w, t) + upd)

\* alpha * d, rounded to the nearest unit.
Alpha(d) == (d * AlphaNum + (AlphaDen \div 2)) \div AlphaDen

\* int -> float
ToFloat(n) == n * WeightScale

\* train_isomorphic: the loop from variant i on, with the encodings already
\* trained; the table when the loop ends.
RECURSIVE TrainLoop(_, _, _, _, _)
TrainLoop(w, trained, t, upd, i) ==
    IF i >= isomorphic_n THEN w
    ELSE LET iso == isomorphic(t, i)
         IN  IF Encode(iso) \notin trained
             THEN TrainLoop(AddV(w, iso, upd),
                            trained \cup {Encode(iso)}, t, upd, i + 1)
             ELSE TrainLoop(w, trained, t, upd, i + 1)

\* Mutants of train_isomorphic: no list of trained encodings; b alone.
RECURSIVE BugTrainLoopNoDedupe(_, _, _, _)
BugTrainLoopNoDedupe(w, t, upd, i) ==
    IF i >= isomorphic_n THEN w
    ELSE BugTrainLoopNoDedupe(AddV(w, isomorphic(t, i), upd), t, upd, i + 1)

BugTrainNoDedupe(w, t, upd) == BugTrainLoopNoDedupe(w, t, upd, 0)

BugTrainOnlySelf(w, t, upd) == AddV(w, t, upd)

train_isomorphic(w, t, upd) == TrainLoop(w, {}, t, upd, 0)

---------------------------------------------------------------------------
(* main: the episode loop *)

\* a[op], r[op] of lines 248-252 (sequences are indexed op + 1)
MoveBoards(t) == [o \in 1..4 |-> move(t, o - 1).tile]
MoveRewards(t) == [o \in 1..4 |-> move(t, o - 1).ret]

\* The loop of lines 251-257 from opcode o on, with v and x as they stand.
RECURSIVE SelectLoop(_, _, _, _, _, _)
SelectLoop(w, aa, rr, vv, xx, o) ==
    IF o >= 4 THEN [v |-> vv, x |-> xx]
    ELSE IF rr[o + 1] # ILLEGAL
         THEN LET val == ToFloat(rr[o + 1]) + V(w, aa[o + 1])
                  nv == [vv EXCEPT ![o + 1] = val]
              IN  SelectLoop(w, aa, rr, nv, IF val > nv[xx + 1] THEN o ELSE xx, o + 1)
         ELSE SelectLoop(w, aa, rr, vv, xx, o + 1)

\* Mutants of Select: the value table left out of v[op]; v[] starting at 0.
BugSelectRewardOnly(w, t) ==
    SelectLoop(ZeroWeight, MoveBoards(t), MoveRewards(t), <<NegFltMax, 0, 0, 0>>, 0, 0)

BugSelectZeroSentinel(w, t) ==
    SelectLoop(w, MoveBoards(t), MoveRewards(t), <<0, 0, 0, 0>>, 0, 0)

Select(w, t) ==
    SelectLoop(w, MoveBoards(t), MoveRewards(t), <<NegFltMax, 0, 0, 0>>, 0, 0)

Init ==
    /\ MainIdle
    /\ pc = "next"
    /\ arg = EmptyBoard
    /\ op = 0
    /\ ret = [tile |-> EmptyBoard, ret |-> 0]

CallVars == <<arg, op, ret>>

\* lines 245-246: b.next(); history.push_back(b)
Insert ==
    /\ pc = "next"
    /\ steps < MaxSteps
    /\ \E nb \in next(b) :
          /\ b' = nb
          /\ history' = Append(history, nb)
    /\ steps' = steps + 1
    /\ pc' = "eval"
    /\ UNCHANGED <<actions, weight, a, r, v, x, episode, CallVars, ReplayVars>>

\* lines 247-257: the four candidate moves and the selection of x
Evaluate ==
    /\ pc = "eval"
    /\ LET sel == Select(weight, b)
       IN  /\ a' = MoveBoards(b)
           /\ r' = MoveRewards(b)
           /\ v' = sel.v
           /\ x' = sel.x
    /\ pc' = "update"
    /\ UNCHANGED <<b, history, actions, weight, episode, steps, CallVars, ReplayVars>>

\* lines 268-288: the forward TD(0) update
\* Mutant of Exact: no terminal case.
BugExactNoTerminalCase == v[x + 1]

Exact == IF r[x + 1] # ILLEGAL THEN v[x + 1] ELSE 0

Upd == Alpha(Exact - V(weight, history[Len(history) - 1]))

Update ==
    /\ pc = "update"
    /\ weight' = IF forward /\ Len(history) > 1
                 THEN train_isomorphic(weight, history[Len(history) - 1], Upd)
                 ELSE weight
    /\ pc' = "advance"
    /\ UNCHANGED <<b, history, actions, a, r, v, x, episode, steps, CallVars, ReplayVars>>

\* line 290: if (r[x] == -1) break
Break ==
    /\ pc = "advance"
    /\ r[x + 1] = ILLEGAL
    /\ pc' = "end"
    /\ UNCHANGED <<b, history, actions, weight, a, r, v, x, episode, steps, CallVars, ReplayVars>>

\* lines 291-293: b = a[x]; history.push_back(b); actions.push_back(x)
Advance ==
    /\ pc = "advance"
    /\ r[x + 1] # ILLEGAL
    /\ b' = a[x + 1]
    /\ history' = Append(history, a[x + 1])
    /\ actions' = Append(actions, x)
    /\ pc' = "next"
    /\ UNCHANGED <<weight, a, r, v, x, episode, steps, CallVars, ReplayVars>>

\* lines 320-322 and 238-243: the episode ends, the next one starts
\* (backward is false: lines 296-318 are not run)
\* Mutant of EndEpisode: actions.clear() left out.
BugEndEpisodeKeepsActions ==
    /\ pc = "end"
    /\ history' = <<>>
    /\ episode' = episode + 1
    /\ b' = EmptyBoard
    /\ pc' = "next"
    /\ UNCHANGED <<actions, weight, a, r, v, x, steps, CallVars, ReplayVars>>

EndEpisode ==
    /\ pc = "end"
    /\ history' = <<>>
    /\ actions' = <<>>
    /\ episode' = episode + 1
    /\ b' = EmptyBoard
    /\ pc' = "next"
    /\ UNCHANGED <<weight, a, r, v, x, steps, CallVars, ReplayVars>>

---------------------------------------------------------------------------
(* main with forward = false and backward = true: play without updates,   *)
(* then the replay of the finished episode, lines 296-318                 *)

\* lines 268-288 with forward false: no update is made
SkipUpdate ==
    /\ pc = "update"
    /\ pc' = "advance"
    /\ UNCHANGED <<b, history, actions, weight, a, r, v, x, episode, steps, CallVars, ReplayVars>>

\* lines 290 and 296-299: break; if (backward) is taken; int r = 0;
\* float exact = 0;
\* history.pop_back() drops the before-state no move was legal on
BreakToReplay ==
    /\ pc = "advance"
    /\ r[x + 1] = ILLEGAL
    /\ replay_r' = 0
    /\ exact' = 0
    /\ history' = SubSeq(history, 1, Len(history) - 1)
    /\ pc' = "replay"
    /\ UNCHANGED <<b, actions, weight, a, r, v, x, episode, steps, CallVars>>

\* Mutant of ReplayStep: exact takes the value the entry had before the
\* update (v a copy, not a reference).
BugReplayStepStaleV ==
    /\ pc = "replay"
    /\ Len(history) > 0
    /\ LET state == history[Len(history)]
           upd == Alpha(exact - V(weight, state))
           before == history[Len(history) - 1]
           rwd == move(before, actions[Len(actions)]).ret
       IN  /\ weight' = train_isomorphic(weight, state, upd)
           /\ replay_r' = rwd
           /\ exact' = V(weight, state) + ToFloat(rwd)
    /\ history' = SubSeq(history, 1, Len(history) - 2)
    /\ actions' = SubSeq(actions, 1, Len(actions) - 1)
    /\ UNCHANGED <<b, a, r, v, x, episode, steps, pc, CallVars>>

\* lines 300-317: one round of while (history.size()).  v is a reference to
\* the entry of history.back(), so exact = v + r reads it after
\* train_isomorphic has added upd to it.
ReplayStep ==
    /\ pc = "replay"
    /\ Len(history) > 0
    /\ LET state == history[Len(history)]
           upd == Alpha(exact - V(weight, state))
           before == history[Len(history) - 1]
           rwd == move(before, actions[Len(actions)]).ret
       IN  /\ weight' = train_isomorphic(weight, state, upd)
           /\ replay_r' = rwd
           /\ exact' = V(weight', state) + ToFloat(rwd)
    /\ history' = SubSeq(history, 1, Len(history) - 2)
    /\ actions' = SubSeq(actions, 1, Len(actions) - 1)
    /\ UNCHANGED <<b, a, r, v, x, episode, steps, pc, CallVars>>

\* line 300: history.size() is 0, the replay is over
ReplayDone ==
    /\ pc = "replay"
    /\ Len(history) = 0
    /\ pc' = "end"
    /\ UNCHANGED <<b, history, actions, weight, a, r, v, x, episode, steps, CallVars, ReplayVars>>

BackwardNext ==
    \/ Insert
    \/ Evaluate
    \/ SkipUpdate
    \/ BreakToReplay
    \/ Advance
    \/ ReplayStep
    \/ ReplayDone
    \/ EndEpisode

BackwardSpec == Init /\ [][BackwardNext]_vars

---------------------------------------------------------------------------
(* main as built: forward = true, backward = false *)

Next ==
    \/ Insert
    \/ Evaluate
    \/ Update
    \/ Break
    \/ Advance
    \/ EndEpisode

Spec == Init /\ [][Next]_vars

---------------------------------------------------------------------------
(* main: the boards of an episode, whatever the value table holds.  The     *)
(* loop of lines 244-294 with the table left out: x is any opcode that the  *)
(* selection can return, which is a legal one when there is one (the table  *)
(* decides which) and an illegal one when none is legal.                    *)

LegalMoves(t) == {o \in 0..3 : move(t, o).ret # ILLEGAL}

PlayInit ==
    /\ MainIdle
    /\ pc = "next"
    /\ arg = EmptyBoard
    /\ op = 0
    /\ ret = [tile |-> EmptyBoard, ret |-> 0]

\* line 245: b.next()
PlayInsert ==
    /\ pc = "next"
    /\ b' \in next(b)
    /\ pc' = "eval"
    /\ UNCHANGED <<history, actions, weight, a, r, v, x, episode, steps, CallVars, ReplayVars>>

\* lines 251-257 and 291: a legal x is selected and b = a[x]
PlayMove ==
    /\ pc = "eval"
    /\ \E o \in LegalMoves(b) :
          /\ x' = o
          /\ b' = move(b, o).tile
    /\ pc' = "next"
    /\ UNCHANGED <<history, actions, weight, a, r, v, episode, steps, CallVars, ReplayVars>>

\* line 290: no direction is legal, r[x] == -1, break
PlayBreak ==
    /\ pc = "eval"
    /\ LegalMoves(b) = {}
    /\ pc' = "end"
    /\ UNCHANGED <<b, history, actions, weight, a, r, v, x, episode, steps, CallVars, ReplayVars>>

PlayNext ==
    \/ PlayInsert
    \/ PlayMove
    \/ PlayBreak

PlaySpec == PlayInit /\ [][PlayNext]_vars

\* The loop is sequential code: it takes its next step whenever it has one.
FairPlaySpec == PlaySpec /\ WF_vars(PlayNext)

\* The largest rank on a board.
MaxOf(t) ==
    CHOOSE m \in {t[1][1], t[1][2], t[2][1], t[2][2]} :
        \A c \in {t[1][1], t[1][2], t[2][1], t[2][2]} : c <= m

\* The before-states that play reaches from the boards of `frontier`
\* (afterstates, or the empty board of line 243), those of `seen` included.
\* Play is not followed beyond a board that holds a rank >= Base.
RECURSIVE PlayClosure(_, _)
PlayClosure(seen, frontier) ==
    IF frontier = {} THEN seen
    ELSE LET befores == UNION {next(t) : t \in frontier} \ seen
             afters == {move(t, o).tile : t \in {s \in befores : MaxOf(s) < Base}, o \in 0..3}
         IN  PlayClosure(seen \cup befores, {t \in afters : MaxOf(t) < Base})

\* Every before-state of the play that goes on from board t, and every
\* board V is read on in it: the candidate afterstates a[op].
PlayBefores(t) == PlayClosure({}, {t})

PlayLookups(t) == {move(s, o).tile : s \in PlayBefores(t), o \in 0..3}

---------------------------------------------------------------------------
(* Claims about single calls of move, checked under BoardSpec *)

Board1000 == <<<<1, 0>>, <<0, 0>>>>
Board1100 == <<<<1, 1>>, <<0, 0>>>>
Board2000 == <<<<2, 0>>, <<0, 0>>>>

\* C1: move returns ILLEGAL exactly when the encoding of the board after the
\* call equals the encoding before it; the board is then unchanged, and in
\* every other case the value returned is a reward >= 0.  Left on 0x1000 is
\* ILLEGAL.
C1_IllegalIffEncodingUnchanged ==
    pc = "moved" =>
        /\ (ret.ret = ILLEGAL) <=> (Encode(ret.tile) = Encode(arg))
        /\ ret.ret = ILLEGAL => ret.tile = arg
        /\ ret.ret # ILLEGAL => ret.ret >= 0
        /\ (arg = Board1000 /\ op = 3) => ret.ret = ILLEGAL

C1_Witness ==
    pc = "moved" /\ arg = Board1000 /\ op = 3 /\ ret.ret = ILLEGAL /\ ret.tile = arg

\* A row of two equal nonzero ranks.
Mergeable(row) == row[1] # 0 /\ row[1] = row[2]

MergeReward(row) == IF Mergeable(row) THEN 2 ^ (row[1] + 1) ELSE 0

\* C2: under Left a row holding twice the same nonzero rank r becomes
\* [r+1, 0] and contributes 2^(r+1); when a row merges, the value returned is
\* the sum of the contributions of the two rows.  Rows [1,1],[0,0] give
\* 0x2000 and return 4.
C2_MergeReward ==
    (pc = "moved" /\ op = 3) =>
        /\ \A i \in 1..2 : Mergeable(arg[i]) => ret.tile[i] = <<arg[i][1] + 1, 0>>
        /\ (\E i \in 1..2 : Mergeable(arg[i])) =>
               ret.ret = MergeReward(arg[1]) + MergeReward(arg[2])
        /\ arg = Board1100 => (ret.tile = Board2000 /\ ret.ret = 4)

C2_Witness ==
    pc = "moved" /\ op = 3 /\ arg = Board1100 /\ ret.tile = Board2000 /\ ret.ret = 4

\* The per-line rule on a line given first cell first: the line after it,
\* and its reward.
Line(first, second) ==
    IF first = 0 THEN [first |-> second, second |-> 0, reward |-> 0]
    ELSE IF first = second THEN [first |-> first + 1, second |-> 0, reward |-> 2 ^ (first + 1)]
    ELSE [first |-> first, second |-> second, reward |-> 0]

\* The move of a direction written cell by cell: Up and Down on the two
\* columns, Right and Left on the two rows.
DirectMove(t, opcode) ==
    LET l1 == CASE opcode = 0 -> Line(t[1][1], t[2][1])
                [] opcode = 2 -> Line(t[2][1], t[1][1])
                [] opcode = 1 -> Line(t[1][2], t[1][1])
                [] opcode = 3 -> Line(t[1][1], t[1][2])
        l2 == CASE opcode = 0 -> Line(t[1][2], t[2][2])
                [] opcode = 2 -> Line(t[2][2], t[1][2])
                [] opcode = 1 -> Line(t[2][2], t[2][1])
                [] opcode = 3 -> Line(t[2][1], t[2][2])
        new == CASE opcode = 0 -> <<<<l1.first, l2.first>>, <<l1.second, l2.second>>>>
                 [] opcode = 2 -> <<<<l1.second, l2.second>>, <<l1.first, l2.first>>>>
                 [] opcode = 1 -> <<<<l1.second, l1.first>>, <<l2.second, l2.first>>>>
                 [] opcode = 3 -> <<<<l1.first, l1.second>>, <<l2.first, l2.second>>>>
    IN  [tile |-> new, ret |-> IF new # t THEN l1.reward + l2.reward ELSE ILLEGAL]

\* C3: move(0) is the per-line rule on each column with the top cell first,
\* move(2) with the bottom cell first, move(1) the rule on each row with the
\* right cell first, move(3) with the left cell first: same board, same
\* reward, same legality.
C3_DirectionsAreLineRule ==
    pc = "moved" => ret = DirectMove(arg, op)

C3_Witness ==
    /\ pc = "moved" /\ op = 0
    /\ arg = <<<<1, 2>>, <<1, 0>>>>
    /\ ret.tile = <<<<2, 2>>, <<0, 0>>>>
    /\ ret.ret = 4

---------------------------------------------------------------------------
(* Claims about the episode loop, checked under Spec *)

\* reward + V(afterstate) of direction o on board t, in table w.
Value(w, t, o) == move(t, o).ret * WeightScale + W(w, Index(move(t, o).tile))

\* The afterstate the previous step produced: history[size - 2].
Prev == history[Len(history) - 1]

\* The table entries of the variants isomorphic(0..7) of t.
IsoEntries(t) == {Index(isomorphic(t, i)) : i \in 0..7}

\* All boards reachable from t by mirror and quarter turns.
SymClass(t) == {rotate(t, k) : k \in 0..3} \cup {rotate(mirror(t), k) : k \in 0..3}

\* C4: when a direction is legal, the selected x is the legal direction with
\* the greatest reward + V(afterstate), the lowest opcode among equals.
C4_GreedyLowestOpcode ==
    (pc = "update" /\ LegalMoves(b) # {}) =>
        /\ x \in LegalMoves(b)
        /\ \A o \in LegalMoves(b) :
              /\ Value(weight, b, x) >= Value(weight, b, o)
              /\ Value(weight, b, o) = Value(weight, b, x) => x <= o

\* x is preferred to a lower opcode of the same reward because of the table.
C4_Witness ==
    /\ pc = "update"
    /\ \E o \in LegalMoves(b) :
          /\ o < x
          /\ move(b, o).ret = move(b, x).ret
          /\ Value(weight, b, o) < Value(weight, b, x)

\* C5: the loop breaks at a before-state, applying no move and appending
\* nothing, exactly when all four directions are illegal on it; otherwise
\* the selected direction is legal and is the move applied.
C5_BreakIffAllIllegal ==
    [][pc = "advance" =>
          IF LegalMoves(b) = {}
          THEN pc' = "end" /\ b' = b /\ history' = history /\ actions' = actions
          ELSE /\ x \in LegalMoves(b)
               /\ pc' = "next"
               /\ b' = move(b, x).tile
               /\ history' = Append(history, move(b, x).tile)
               /\ actions' = Append(actions, x)]_vars

C5_Witness ==
    /\ pc = "end"
    /\ LegalMoves(b) = {}
    /\ Len(history) = 2 * Len(actions) + 1
    /\ history[Len(history)] = b

\* C6: in forward mode the first step of an episode changes no table entry;
\* a later step changes the entry of the afterstate of the previous step,
\* history[size-2], by alpha * (target - its value), target being
\* reward(x) + V(afterstate(x)) for a legal x and 0 when no direction is
\* legal; the selected move is not yet applied when the update is made.
C6_ForwardUpdate ==
    [][pc = "update" =>
          /\ pc' = "advance" /\ b' = b /\ history' = history /\ actions' = actions
          /\ b = history[Len(history)]
          /\ IF Len(history) = 1
             THEN weight' = weight
             ELSE LET target == IF LegalMoves(b) = {} THEN 0 ELSE Value(weight, b, x)
                      u == W(weight, Index(Prev))
                  IN  /\ Prev = move(history[Len(history) - 2], actions[Len(actions)]).tile
                      /\ W(weight', Index(Prev)) = u + Alpha(target - u)]_vars

\* An update towards a legal move's target of an entry that was not 0.
C6_Witness ==
    /\ pc = "advance"
    /\ Len(history) > 1
    /\ r[x + 1] # ILLEGAL
    /\ W(weight, Index(Prev)) > 0
    /\ W(weight, Index(Prev)) # Alpha(v[x + 1])

\* C7: train_isomorphic(b, delta) adds delta once to the entry of each
\* distinct encoding among isomorphic(0..7) of b, b included, also when
\* variants coincide, and changes no other entry.
C7_TrainIsomorphicFrame ==
    [][(pc = "update" /\ Len(history) > 1) =>
          LET delta == Upd
              entries == IsoEntries(Prev)
          IN  /\ entries \subseteq TableRange
              /\ DOMAIN weight' \subseteq TableRange
              /\ \A k \in DOMAIN weight \cup DOMAIN weight' \cup entries :
                     W(weight', k) = W(weight, k) + (IF k \in entries THEN delta ELSE 0)]_vars

\* A nonzero update of a board whose 8 variants are 4 boards.
C7_Witness ==
    /\ pc = "advance"
    /\ Len(history) > 1
    /\ Cardinality(IsoEntries(Prev)) = 4
    /\ Index(Prev) \in IsoEntries(Prev)
    /\ W(weight, Index(Prev)) # 0

\* C8: from the all-zero table, after the first update of the first episode
\* the entry of the afterstate and of each board of its symmetry class is
\* alpha * target, and every other entry is 0.
C8_FirstUpdate ==
    (episode = 1 /\ pc = "advance" /\ Len(history) = 3) =>
        LET class == {Index(t) : t \in SymClass(Prev)}
        IN  \A k \in DOMAIN weight \cup class :
                W(weight, k) = IF k \in class THEN Alpha(Value(ZeroWeight, b, x)) ELSE 0

C8_Witness ==
    /\ episode = 1 /\ pc = "advance" /\ Len(history) = 3
    /\ W(weight, Index(Prev)) = Alpha(4 * WeightScale)
    /\ W(weight, Index(mirror(Prev))) = Alpha(4 * WeightScale)

---------------------------------------------------------------------------
(* Claims about the boards of play, checked under FairPlaySpec and PlaySpec *)

\* C9: every episode terminates: whatever tiles next() inserts and whatever
\* legal moves are made, the loop reaches a before-state on which all four
\* directions are illegal.
C9_EpisodeTerminates == <>(pc = "end" /\ LegalMoves(b) = {})

C9_Witness ==
    /\ pc = "end"
    /\ LegalMoves(b) = {}
    /\ \A i \in 1..2, j \in 1..2 : b[i][j] # 0

\* C10 as stated: the play of an episode, which starts from the empty board,
\* reaches a board with a cell of rank 6 or more, on which V is read with a
\* digit >= 6.
C10_PlayReachesRankSix ==
    (pc = "next" /\ b = EmptyBoard) =>
        \E t \in PlayBefores(b) \cup PlayLookups(b) : MaxOf(t) >= Base

\* C10 as amended: no board of play holds a rank above 5: neither a
\* before-state nor a candidate afterstate, so every V(b) is read with four
\* digits below 6, at an index of the table.
C10_RanksBelowSix ==
    /\ MaxOf(b) < Base
    /\ Index(b) \in TableRange
    /\ pc = "eval" =>
          \A o \in 0..3 : /\ MaxOf(move(b, o).tile) < Base
                          /\ Index(move(b, o).tile) \in TableRange

\* Rank 5 is reached.
C10_Witness == pc = "eval" /\ MaxOf(b) = Base - 1 /\ LegalMoves(b) # {}

---------------------------------------------------------------------------
(* Further claims about single calls, checked under BoardSpec *)

\* A row that Left changes, and the other row of row i.
RowChanges(row) == (row[1] = 0 /\ row[2] # 0) \/ Mergeable(row)

\* C11 as stated: under Left a row with both cells empty is merged into a
\* rank-1 tile in the first cell, with a reward contribution of 2.
C11_EmptyRowMerges ==
    (pc = "moved" /\ op = 3) =>
        \A i \in 1..2 : arg[i] = <<0, 0>> =>
            (ret.tile[i] = <<1, 0>> /\ ret.ret >= 2)

\* C11 as amended: under Left a row with both cells empty takes the branch
\* of the empty first cell, stays [0, 0] and adds nothing to the reward: the
\* value returned is that of the other row alone, ILLEGAL when the other row
\* does not change either.
C11_EmptyRowUnchanged ==
    (pc = "moved" /\ op = 3) =>
        \A i \in 1..2 : arg[i] = <<0, 0>> =>
            /\ ret.tile[i] = <<0, 0>>
            /\ ret.ret = IF RowChanges(arg[3 - i]) THEN MergeReward(arg[3 - i]) ELSE ILLEGAL

C11_Witness ==
    /\ pc = "moved" /\ op = 3
    /\ arg = <<<<0, 0>>, <<1, 1>>>>
    /\ ret.tile = <<<<0, 0>>, <<2, 0>>>>
    /\ ret.ret = 4

\* A board with no empty cell and no two equal ranks side by side or one
\* above the other.
Stuck(t) ==
    /\ \A i \in 1..2, j \in 1..2 : t[i][j] # 0
    /\ t[1][1] # t[1][2] /\ t[2][1] # t[2][2]
    /\ t[1][1] # t[2][1] /\ t[1][2] # t[2][2]

\* C12: on a board with no empty cell and no two adjacent equal ranks, move
\* returns ILLEGAL for each of the four directions and leaves the board
\* unchanged.
C12_StuckBoardAllIllegal ==
    (pc = "moved" /\ Stuck(arg)) =>
        /\ ret.ret = ILLEGAL
        /\ ret.tile = arg
        /\ \A o \in 0..3 : move(arg, o).ret = ILLEGAL /\ move(arg, o).tile = arg

C12_Witness ==
    /\ pc = "moved" /\ op = 0
    /\ arg = <<<<1, 2>>, <<2, 1>>>>
    /\ ret.ret = ILLEGAL /\ ret.tile = arg

\* The cell at row-major position pos, and the number of cells of rank k.
Cell(t, pos) == t[(pos \div 2) + 1][(pos % 2) + 1]

RankCount(t, k) == Cardinality({pos \in 0..3 : Cell(t, pos) = k})

\* C13: isomorphic(i), i in 0..7, only permutes cell positions: every rank
\* occurs in the board after the call as often as in the board before it.
C13_IsomorphicPermutesCells ==
    (pc = "isomorphed") =>
        \A k \in Ranks : RankCount(ret.tile, k) = RankCount(arg, k)

C13_Witness ==
    /\ pc = "isomorphed" /\ op = 5
    /\ arg = <<<<1, 2>>, <<3, 4>>>>
    /\ ret.tile # arg
    /\ \A k \in 1..4 : RankCount(ret.tile, k) = 1

\* C15: next() on a board with an empty cell changes exactly one cell, which
\* was empty and becomes rank 1 or 2, and leaves every other cell as it was;
\* each empty cell with each of the two ranks is a possible outcome; on a
\* board with no empty cell next() changes nothing.
C15_NextInsertsOneTile ==
    /\ (pc = "nexted") =>
          IF \A pos \in 0..3 : Cell(arg, pos) # 0
          THEN ret.tile = arg
          ELSE \E pos \in 0..3 :
                  /\ Cell(arg, pos) = 0
                  /\ Cell(ret.tile, pos) \in {1, 2}
                  /\ \A q \in (0..3) \ {pos} : Cell(ret.tile, q) = Cell(arg, q)
    /\ (pc = "call") =>
          \A i \in 1..2, j \in 1..2, pop \in {1, 2} :
              arg[i][j] = 0 =>
                  ENABLED (CallNext /\ ret'.tile = [arg EXCEPT ![i][j] = pop])

C15_Witness ==
    /\ pc = "nexted"
    /\ arg = <<<<1, 0>>, <<0, 3>>>>
    /\ ret.tile = <<<<1, 0>>, <<2, 3>>>>

\* C17 as stated: the boards produced by isomorphic(i), i in 0..7, are all
\* the boards reachable by mirror and quarter-turn rotation, the plain
\* mirror image included.
C17_IsomorphicCoversSymmetryClass ==
    (pc = "isomorphed") =>
        /\ {isomorphic(arg, i) : i \in 0..(isomorphic_n - 1)} = SymClass(arg)
        /\ \E i \in 0..(isomorphic_n - 1) : isomorphic(arg, i) = mirror(arg)

---------------------------------------------------------------------------
(* Claims about the packed encoding, checked under CodecSpec *)

\* C14: encoding the board decoded from a packed 16-bit value gives that
\* value back, and decoding the encoding of a board with ranks in 0..15
\* gives the same ranks in the same cells; decoded ranks are in 0..15 and
\* encodings are 16-bit values.
C14_EncodeDecodeRoundTrip ==
    /\ (pc = "decoded") => \A pos \in 0..3 : Cell(arg, pos) \in 0..15
    /\ (pc = "encoded") => ret.ret = op
    /\ (pc = "packed") => ret.ret \in 0..65535
    /\ (pc = "unpacked") => \A pos \in 0..3 : Cell(ret.tile, pos) = Cell(arg, pos)

C14_Witness ==
    /\ pc = "encoded"
    /\ op = 4660
    /\ arg = <<<<1, 2>>, <<3, 4>>>>
    /\ ret.ret = 4660

---------------------------------------------------------------------------
(* Further claims about the episode loop, checked under Spec *)

\* C16: whenever a before-state has just been appended, history has
\* 2*|actions|+1 entries, and each afterstate in it is the board that the
\* legal move recorded in actions makes of the before-state in front of it
\* (history[2k+1] from history[2k] by actions[k], counting from 0); history
\* and actions are both empty when an episode starts.
C16_HistoryAlternates ==
    /\ (pc \in {"eval", "update", "advance", "end"}) =>
          /\ Len(history) = 2 * Len(actions) + 1
          /\ \A k \in 1..Len(actions) :
                /\ actions[k] \in 0..3
                /\ move(history[2 * k - 1], actions[k]).ret # ILLEGAL
                /\ history[2 * k] = move(history[2 * k - 1], actions[k]).tile
    /\ (pc = "next" /\ b = EmptyBoard) => (history = <<>> /\ actions = <<>>)

C16_Witness ==
    /\ episode = 2 /\ pc = "eval"
    /\ Len(actions) = 1 /\ Len(history) = 3
    /\ history[2] = move(history[1], actions[1]).tile
    /\ history[2] # history[1]

---------------------------------------------------------------------------
(* Further claims about the boards of play, checked under PlaySpec *)

\* C18: every afterstate reached in play has an empty cell, so the next()
\* that follows a move inserts a tile and is never the no-op of a full
\* board; every before-state holds a cell of rank 1 or 2.
C18_AfterstateHasEmptyCell ==
    /\ (pc = "next") =>
          /\ \E pos \in 0..3 : Cell(b, pos) = 0
          /\ b \notin next(b)
    /\ (pc \in {"eval", "end"}) => \E pos \in 0..3 : Cell(b, pos) \in {1, 2}

C18_Witness ==
    /\ pc = "next"
    /\ RankCount(b, 0) = 1
    /\ \E pos \in 0..3 : Cell(b, pos) >= 3

---------------------------------------------------------------------------
(* Claims about the backward replay, checked under BackwardSpec *)

\* C19: in backward mode the afterstates of the finished episode are updated
\* last to first, each by delta = alpha * (exact - V(state)) added to the
\* entries of its variants and to no other entry.  exact is 0 for the last
\* afterstate; for each earlier one it is the value of the afterstate that
\* follows it in play, read after that afterstate's own update, plus the
\* reward of the move that produced that following afterstate.  The replay
\* ends with history and actions both empty.
C19_BackwardReplay ==
    [][/\ (pc = "advance" /\ pc' = "replay") =>
             /\ exact' = 0
             /\ Len(history') = 2 * Len(actions)
             /\ history' = SubSeq(history, 1, Len(history) - 1)
       /\ (pc = "replay" /\ pc' = "replay") =>
             LET state == history[Len(history)]
                 made == move(history[Len(history) - 1], actions[Len(actions)])
                 delta == Alpha(exact - V(weight, state))
                 entries == IsoEntries(state)
             IN  /\ Len(history) = 2 * Len(actions)
                 /\ made.tile = state /\ made.ret # ILLEGAL
                 /\ entries \subseteq TableRange
                 /\ \A k \in DOMAIN weight \cup DOMAIN weight' \cup entries :
                        W(weight', k) = W(weight, k) + (IF k \in entries THEN delta ELSE 0)
                 /\ exact' = W(weight', Index(state)) + made.ret * WeightScale
                 /\ history' = SubSeq(history, 1, Len(history) - 2)
                 /\ actions' = SubSeq(actions, 1, Len(actions) - 1)
       /\ (pc = "replay" /\ pc' = "end") => (history' = <<>> /\ actions' = <<>>)]_vars

\* The replay is over after an update that was not zero, with exact holding
\* an updated table value plus a reward.
C19_Witness ==
    /\ pc = "end"
    /\ history = <<>> /\ actions = <<>>
    /\ weight # ZeroWeight
    /\ exact % WeightScale # 0

====
